---- MODULE Spec2Model ----
(***************************************************************************)
(* The provably-fair Mines game engine of the HedgeFund server:            *)
(* createMinesGame, revealMinesTile and cashoutMinesGame running as        *)
(* concurrent request handlers over one PostgreSQL database (users,        *)
(* transactions and mines_games tables).                                   *)
(*                                                                         *)
(* Money is kept in cents (decimal(10,2) columns), multipliers in units of *)
(* 1/10000 (decimal(10,4) column).  db.transaction runs at the database's  *)
(* default isolation level (read committed): every statement reads the     *)
(* committed rows, writes become visible at commit, an UPDATE takes the    *)
(* row lock until commit, and a throw inside the callback rolls back.      *)
(***************************************************************************)
EXTENDS Integers, Sequences, FiniteSets, Bags, TLC

VARIABLES
    balance,    \* users.deposit_balance of every user row, in cents
    ledger,     \* the transactions table, in insertion order
    games,      \* the mines_games table; a game's id is its index
    requests,   \* the request handlers in flight: a bag of their frames
                \* (position in the handler and local variables)
    response,   \* what the step just taken returned or threw to a caller
    calc,       \* a call of one of the pure functions on its own: its
                \* arguments and, once it has run, what it returned
    wallet      \* the withdrawal side of the database: every user's
                \* users.withdrawal_balance in cents, and the tables
                \* referral_earnings, user_investments and
                \* withdrawal_requests; a row's id is its index

vars == <<balance, ledger, games, requests, response, calc, wallet>>
db == <<balance, ledger, games>>

-----------------------------------------------------------------------------
(* Bounds of the model *)

MaxInFlight == 2
MaxLedger == 3
MaxWithdrawalRequests == 3

-----------------------------------------------------------------------------
(* Inputs of the requests *)

Users == {"u1", "u2"}
UserIds == Users \cup {"u0"}
InitBalance == [u \in Users |-> IF u = "u1" THEN 1500 ELSE 0]
InitWithdrawalBalance == [u \in Users |-> IF u = "u1" THEN 10000 ELSE 2500]
BetAmounts == {0, 1000}
MineCountInputs == {0, 5, 24, 25}
ClientSeeds == {1}
ServerSeeds == {1}
TileInputs == {3, 8, 25}

\* The arguments of calculateMinesMultiplier called on its own: any count
\* of revealed tiles of the grid, any mine count a game can have.
RevealedCountInputs == 0..25
CalcMineCountInputs == 1..24

\* The arguments of combinations called on its own: every n of the grid,
\* every k from below 0 to above n.
CombNInputs == 0..25
CombKInputs == (0 - 2)..27

\* The digests generateMineLocations is run on, on its own: 64 bytes that
\* start anywhere and go up by any step, the all-zero and the all-255
\* digest among them.
BufferStarts == {0, 77, 255}
BufferSteps == {0, 1, 53, 255}
BufferInputs ==
    {[b \in 0..63 |-> (start + step * b) % 256] :
        start \in BufferStarts, step \in BufferSteps}

-----------------------------------------------------------------------------
(* Program constants *)

GRID_SIZE == 25
HMAC_BYTES == 64
NONCE == 1
MULT_SCALE == 10000
DEFAULT_MULTIPLIER == 10000
MULT_COLUMN_LIMIT == 1000000
NULL == -1
HOUSE_EDGE_PERCENT == 99

-----------------------------------------------------------------------------
(* Provably fair logic *)

\* crypto.randomBytes(32): any seed may come out.
generateServerSeed == ServerSeeds

\* SHA-256 of the seed, as a stand-in digest: a fixed function of the seed
\* that differs from the seed itself.
hashServerSeed(serverSeed) == (serverSeed * 7919 + 104729) % 65521

\* HMAC-SHA512 keyed by serverSeed over `${clientSeed}:${nonce}`: a stand-in
\* digest of 64 bytes, a fixed function of the three inputs.
HmacDigest(serverSeed, clientSeed, nonce) ==
    [b \in 0..(HMAC_BYTES - 1) |->
        (serverSeed * 89 + clientSeed * 57 + nonce * 31
           + b * (2 * serverSeed + 37)) % 256]

\* Swap as it would be if numbers[j] were copied to numbers[i] and not
\* exchanged with it.
SwapCopy(numbers, i, j) == [numbers EXCEPT ![i + 1] = numbers[j + 1]]

\* [numbers[i], numbers[j]] = [numbers[j], numbers[i]]
Swap(numbers, i, j) ==
    [numbers EXCEPT ![i + 1] = numbers[j + 1], ![j + 1] = numbers[i + 1]]

\* Math.floor(buffer[i % buffer.length] / 256 * (i + 1)); the division by
\* 256 and the product are exact in doubles.
SwapIndex(buffer, i) == (buffer[i % HMAC_BYTES] * (i + 1)) \div 256

\* for (let i = numbers.length - 1; i > 0; i--) { j = ...; swap }
RECURSIVE Shuffle(_, _, _)
Shuffle(numbers, buffer, i) ==
    IF i <= 0 THEN numbers
    ELSE LET j == SwapIndex(buffer, i)
         IN  Shuffle(Swap(numbers, i, j), buffer, i - 1)

RECURSIVE InsertSorted(_, _)
InsertSorted(sorted, x) ==
    IF sorted = <<>> THEN <<x>>
    ELSE IF x - Head(sorted) < 0 THEN <<x>> \o sorted
    ELSE <<Head(sorted)>> \o InsertSorted(Tail(sorted), x)

\* Array.prototype.sort((a, b) => a - b)
RECURSIVE SortAscending(_)
SortAscending(s) ==
    IF s = <<>> THEN <<>>
    ELSE InsertSorted(SortAscending(Tail(s)), Head(s))

\* generateMineLocations from the digest on: the shuffle, the slice and
\* the sort.
MineLocationsOf(buffer, grid_size, mine_count) ==
    LET numbers  == [i \in 1..grid_size |-> i - 1]
        shuffled == Shuffle(numbers, buffer, grid_size - 1)
    IN  SortAscending(SubSeq(shuffled, 1, mine_count))

\* generateMineLocations as it would be if the digest took in how many
\* games the table holds.
generateMineLocationsOfTable(serverSeed, clientSeed, nonce, grid_size, mine_count) ==
    MineLocationsOf(HmacDigest(serverSeed, clientSeed, nonce + Len(games)),
                    grid_size, mine_count)

generateMineLocations(serverSeed, clientSeed, nonce, grid_size, mine_count) ==
    MineLocationsOf(HmacDigest(serverSeed, clientSeed, nonce),
                    grid_size, mine_count)

\* includes as it would be if it never found the element.
includesNothing(arr, x) == FALSE

\* Array.prototype.includes
includes(arr, x) == \E i \in 1..Len(arr) : arr[i] = x

-----------------------------------------------------------------------------
(* Payout multiplier *)

\* CombLoop as it would be if it divided before it multiplied, in whole
\* numbers.
RECURSIVE CombLoopDivideFirst(_, _, _, _)
CombLoopDivideFirst(res, n, k, i) ==
    IF i > k THEN res
    ELSE CombLoopDivideFirst((res \div i) * (n - i + 1), n, k, i + 1)

\* for (let i = 1; i <= k; i++) { res = (res * (n - i + 1)) / i; }
RECURSIVE CombLoop(_, _, _, _)
CombLoop(res, n, k, i) ==
    IF i > k THEN res
    ELSE CombLoop((res * (n - i + 1)) \div i, n, k, i + 1)

combinations(n, k) ==
    IF k < 0 \/ k > n THEN 0
    ELSE IF k = 0 \/ k = n THEN 1
    ELSE CombLoop(1, n, IF 2 * k > n THEN n - k ELSE k, 1)

\* calculateMinesMultiplier as it would be if it were given the count of
\* tiles before the reveal.
calculateMinesMultiplierOldCount(revealedCount, mineCount) ==
    [num |-> HOUSE_EDGE_PERCENT * combinations(GRID_SIZE, revealedCount - 1),
     den |-> combinations(GRID_SIZE - mineCount, revealedCount - 1)]

\* calculateMinesMultiplier as it would be if the mines were left in the
\* count of tiles to draw from.
calculateMinesMultiplierAllTiles(revealedCount, mineCount) ==
    [num |-> HOUSE_EDGE_PERCENT * combinations(GRID_SIZE, revealedCount),
     den |-> combinations(GRID_SIZE, revealedCount)]

\* calculateMinesMultiplier as it would be without the house edge.
calculateMinesMultiplierFairOdds(revealedCount, mineCount) ==
    [num |-> 100 * combinations(GRID_SIZE, revealedCount),
     den |-> combinations(GRID_SIZE - mineCount, revealedCount)]

\* 0.99 * C(25, revealedCount) / C(25 - mineCount, revealedCount), kept as
\* the exact fraction num/den in hundredths (0.99 is 99 hundredths), which
\* fits 32 bits for every count of the grid.
calculateMinesMultiplier(revealedCount, mineCount) ==
    [num |-> HOUSE_EDGE_PERCENT * combinations(GRID_SIZE, revealedCount),
     den |-> combinations(GRID_SIZE - mineCount, revealedCount)]

\* Number.prototype.toFixed(4) of a multiplier given in hundredths, in
\* units of 1/10000: the nearest multiple of 1/10000, the larger one on a
\* tie; x/0 is Infinity and 0/0 is NaN, printed as such.
INFINITY == -2
NAN == -3
toFixed4(m) ==
    IF m.den = 0 THEN (IF m.num = 0 THEN NAN ELSE INFINITY)
    ELSE (2 * (MULT_SCALE \div 100) * m.num + m.den) \div (2 * m.den)

\* decimal(10,4): NaN is storable, an infinity or a value of 10^6 or more
\* is rejected by the database (numeric field overflow).
FitsMultiplierColumn(m4) ==
    \/ m4 = NAN
    \/ m4 >= 0 /\ m4 \div MULT_SCALE < MULT_COLUMN_LIMIT

\* winnings = betAmount * multiplier, in units of 1/1000000
Winnings(betAmount, multiplier) == betAmount * multiplier

\* The doubles that are exact: an amount of cents, or of units of 1/1000000,
\* that is a binary fraction (a multiple of 1/4, of 1/64).
ExactCents(cents) == cents % 25 = 0
ExactMicros(x6) == x6 % 15625 = 0

\* (x).toFixed(2) of an amount given in units of 1/1000000, in cents: the
\* nearest cent of the double x.  When the decimal amount lies on a half
\* cent, an exact double is rounded up; a double that is not exact lies
\* next to the half cent, on the side its binary digits put it, and is
\* rounded to that side (17.38 + 12.375 prints "29.75", 5.03 + 12.375
\* prints "17.41"): the set holds both sides.
toFixed2(x6, exact) ==
    IF x6 % MULT_SCALE = MULT_SCALE \div 2 /\ ~exact
      THEN {x6 \div MULT_SCALE, x6 \div MULT_SCALE + 1}
      ELSE {(x6 + MULT_SCALE \div 2) \div MULT_SCALE}

-----------------------------------------------------------------------------
(* Rows, frames and responses *)

NoRow == [id |-> 0]

NoResponse == [op |-> "none", error |-> "none", body |-> NoRow]

\* No call of calculateMinesMultiplier on its own.
NoCalc ==
    [revealedCount |-> 0, mineCount |-> 0, done |-> FALSE,
     multiplier |-> [num |-> 0, den |-> 0]]

\* No row in the tables of the withdrawal side.
NoWallet ==
    [withdrawalBalance |-> InitWithdrawalBalance, referralEarnings |-> <<>>,
     userInvestments |-> <<>>, withdrawalRequests |-> <<>>]

Frame ==
    [pc |-> "none", userId |-> "u0", gameId |-> 0, tileIndex |-> 0,
     betAmount |-> 0, mineCount |-> 0, clientSeed |-> 0,
     game |-> NoRow, winnings |-> 0, winningsFixed |-> 0, newBalance |-> 0]

InFlight == BagCardinality(requests)

\* The ledger rows the handlers in flight are about to insert.
LedgerRowsInFlight ==
    BagCardinality([r \in {q \in BagToSet(requests) :
                              q.pc \in {"bet_tx", "co_select_user", "co_tx"}} |->
                        requests[r]])

\* The ids a caller may name: every game there is, and one there is not.
GameIdInputs == 1..(Len(games) + 1)

\* SafeGame as it would be if the row were returned as it is.
SafeGameWholeRow(row) == row

\* const { serverSeed: _, mineLocations: _, ...safeGame } = row
SafeGame(row) ==
    [f \in DOMAIN row \ {"serverSeed", "mineLocations"} |-> row[f]]

\* const [game] = await select().from(minesGames).where(eq(minesGames.id, gameId))
SelectGame(gameId) ==
    IF gameId \in 1..Len(games) THEN games[gameId] ELSE NoRow

\* NotFoundOrDenied as it would be if the owner were not compared.
NotFoundOnly(game, userId) == game.id = 0

\* if (!game || game.userId !== userId)
NotFoundOrDenied(game, userId) == game.id = 0 \/ game.userId # userId

\* NotActive as it would be if only a busted game were refused.
NotActiveOnlyBusted(game) == game.status = "busted"

\* if (game.status !== 'active')
NotActive(game) == game.status # "active"

\* The handler awaits: its frame stays in flight.
Await(old, new) ==
    /\ requests' = (requests (-) SetToBag({old})) (+) SetToBag({new})
    /\ response' = NoResponse

\* The handler returns `body` to its caller.
Return(old, op, body) ==
    /\ requests' = requests (-) SetToBag({old})
    /\ response' = [op |-> op, error |-> "none", body |-> body]

\* The handler throws new Error(msg).
Throw(old, op, msg) ==
    /\ requests' = requests (-) SetToBag({old})
    /\ response' = [op |-> op, error |-> msg, body |-> NoRow]

Init ==
    /\ balance = InitBalance
    /\ ledger = <<>>
    /\ games = <<>>
    /\ requests = EmptyBag
    /\ response = NoResponse
    /\ calc = NoCalc
    /\ wallet = NoWallet

-----------------------------------------------------------------------------
(* createMinesGame *)

\* InvalidMineCount as it would be if a grid full of mines were allowed.
InvalidMineCountAbove25(mineCount) == mineCount < 1 \/ mineCount > 25

\* if (payload.mineCount < 1 || payload.mineCount > 24)
InvalidMineCount(mineCount) == mineCount < 1 \/ mineCount > 24

\* InsufficientBalance as it would be if only an empty balance were refused.
InsufficientBalanceOnlyEmpty(currentBalance, betAmount) == currentBalance <= 0

\* if (currentBalance < payload.betAmount)
InsufficientBalance(currentBalance, betAmount) == currentBalance < betAmount

\* Payload validation, BEGIN, the select of the user row and the balance
\* check.
createMinesGame(userId, betAmount, mineCount, clientSeed) ==
    /\ InFlight < MaxInFlight
    /\ UNCHANGED <<calc, wallet>>
    /\ Len(ledger) + LedgerRowsInFlight < MaxLedger
    /\ UNCHANGED db
    /\ IF betAmount <= 0
         THEN Throw(Frame, "bet", "Invalid bet amount.")
       ELSE IF InvalidMineCount(mineCount)
         THEN Throw(Frame, "bet", "Mine count must be between 1 and 24.")
       ELSE IF userId \notin Users
         THEN Throw(Frame, "bet", "User not found.")
       ELSE IF InsufficientBalance(balance[userId], betAmount)
         THEN Throw(Frame, "bet", "Insufficient balance.")
       ELSE Await(Frame,
                  [Frame EXCEPT !.pc = "bet_tx", !.userId = userId,
                                !.betAmount = betAmount,
                                !.mineCount = mineCount,
                                !.clientSeed = clientSeed,
                                !.newBalance = balance[userId] - betAmount])

NewGame(id, r, serverSeed) ==
    [id |-> id,
     userId |-> r.userId,
     betAmount |-> r.betAmount,
     mineCount |-> r.mineCount,
     clientSeed |-> r.clientSeed,
     serverSeed |-> serverSeed,
     serverSeedHash |-> hashServerSeed(serverSeed),
     nonce |-> NONCE,
     mineLocations |-> generateMineLocations(serverSeed, r.clientSeed, NONCE,
                                             GRID_SIZE, r.mineCount),
     revealedTiles |-> <<>>,
     status |-> "active",
     payoutMultiplier |-> DEFAULT_MULTIPLIER,
     cashedOutAmount |-> NULL]

BetLedgerRow(r) ==
    [userId |-> r.userId, type |-> "game_bet", amount |-> 0 - r.betAmount]

\* The rest of the transaction: the UPDATE of the user row, the insert of
\* the ledger row, seed generation, the insert of the game row, COMMIT, and
\* the return of the safe version of the row.  None of these statements is
\* visible to another handler before COMMIT, and the row lock the UPDATE
\* takes is released by it, so they are one step.
BetCommit(r) ==
    /\ r.pc = "bet_tx"
    /\ UNCHANGED <<calc, wallet>>
    /\ \E serverSeed \in generateServerSeed :
         LET newGame == NewGame(Len(games) + 1, r, serverSeed)
         IN  /\ balance' = [balance EXCEPT ![r.userId] = r.newBalance]
             /\ ledger' = Append(ledger, BetLedgerRow(r))
             /\ games' = Append(games, newGame)
             /\ Return(r, "bet", SafeGame(newGame))

-----------------------------------------------------------------------------
(* revealMinesTile *)

\* db.select() of the game row and the three checks on it.
revealMinesTile(userId, gameId, tileIndex) ==
    /\ InFlight < MaxInFlight
    /\ UNCHANGED <<calc, wallet>>
    /\ UNCHANGED db
    /\ LET game == SelectGame(gameId)
       IN  IF NotFoundOrDenied(game, userId)
             THEN Throw(Frame, "reveal", "Game not found or access denied.")
           ELSE IF NotActive(game)
             THEN Throw(Frame, "reveal", "Game is not active.")
           ELSE IF includes(game.revealedTiles, tileIndex)
             THEN Throw(Frame, "reveal", "Tile already revealed.")
           ELSE Await(Frame,
                      [Frame EXCEPT !.pc = "rv_update", !.userId = userId,
                                    !.gameId = gameId, !.tileIndex = tileIndex,
                                    !.game = game])

\* BustedRow as it would be if busting wiped the server seed.
BustedRowSeedWiped(row) == [row EXCEPT !.status = "busted", !.serverSeed = 0]

\* db.update(minesGames).set({ status: 'busted' }).returning()
BustedRow(row) == [row EXCEPT !.status = "busted"]

\* db.update(minesGames).set({ revealedTiles, payoutMultiplier }).returning()
RevealedRow(row, newRevealedTiles, newMultiplier) ==
    [row EXCEPT !.revealedTiles = newRevealedTiles,
                !.payoutMultiplier = newMultiplier]

\* The mine test on the row read earlier, then the single UPDATE of the
\* row as it is now, and the return of what the UPDATE returned.
RevealUpdate(r) ==
    /\ r.pc = "rv_update"
    /\ UNCHANGED <<balance, ledger, calc, wallet>>
    /\ LET g == r.gameId
       IN  IF includes(r.game.mineLocations, r.tileIndex)
             THEN /\ games' = [games EXCEPT ![g] = BustedRow(games[g])]
                  /\ Return(r, "reveal", games'[g])
           ELSE LET newRevealedTiles == Append(r.game.revealedTiles, r.tileIndex)
                    newMultiplier ==
                        toFixed4(calculateMinesMultiplier(Len(newRevealedTiles),
                                                          r.game.mineCount))
                IN  IF ~FitsMultiplierColumn(newMultiplier)
                      THEN /\ UNCHANGED games
                           /\ Throw(r, "reveal", "numeric field overflow")
                    ELSE /\ games' = [games EXCEPT ![g] =
                               RevealedRow(games[g], newRevealedTiles, newMultiplier)]
                         /\ Return(r, "reveal", SafeGame(games'[g]))

-----------------------------------------------------------------------------
(* cashoutMinesGame *)

\* NothingRevealed as it would be if the check were not made.
NothingRevealedNever(revealedTiles) == FALSE

\* if (revealedTiles.length === 0)
NothingRevealed(revealedTiles) == Len(revealedTiles) = 0

\* BEGIN, tx.select() of the game row, the three checks, and the winnings.
cashoutMinesGame(userId, gameId) ==
    /\ InFlight < MaxInFlight
    /\ UNCHANGED <<calc, wallet>>
    /\ Len(ledger) + LedgerRowsInFlight < MaxLedger
    /\ UNCHANGED db
    /\ LET game == SelectGame(gameId)
       IN  IF NotFoundOrDenied(game, userId)
             THEN Throw(Frame, "cashout", "Game not found or access denied.")
           ELSE IF NotActive(game)
             THEN Throw(Frame, "cashout", "Game is not active.")
           ELSE IF NothingRevealed(game.revealedTiles)
             THEN Throw(Frame, "cashout",
                        "Cannot cash out before revealing any tiles.")
           ELSE LET winnings == Winnings(game.betAmount, game.payoutMultiplier)
                IN  \E fixed \in toFixed2(winnings, ExactMicros(winnings)) :
                      Await(Frame,
                            [Frame EXCEPT !.pc = "co_select_user",
                                          !.userId = userId, !.gameId = gameId,
                                          !.game = game, !.winnings = winnings,
                                          !.winningsFixed = fixed])

\* tx.select() of the user row; newBalance = currentBalance + winnings
CashoutSelectUser(r) ==
    /\ r.pc = "co_select_user"
    /\ UNCHANGED <<calc, wallet>>
    /\ UNCHANGED db
    /\ \E newBalance \in toFixed2(balance[r.userId] * MULT_SCALE + r.winnings,
                                  ExactCents(balance[r.userId])
                                    /\ ExactMicros(r.winnings)) :
         Await(r, [r EXCEPT !.pc = "co_tx", !.newBalance = newBalance])

WinLedgerRow(r) ==
    [userId |-> r.userId, type |-> "game_win", amount |-> r.winningsFixed]

\* tx.update(minesGames).set({ status: 'cashed_out', cashedOutAmount })
CashedOutRow(row, cashedOutAmount) ==
    [row EXCEPT !.status = "cashed_out", !.cashedOutAmount = cashedOutAmount]

\* The rest of the transaction: the UPDATE of the user row, the insert of
\* the ledger row, the UPDATE of the game row as it is now, COMMIT, and the
\* return of what that UPDATE returned; one step for the same reason as in
\* BetCommit.
CashoutCommit(r) ==
    /\ r.pc = "co_tx"
    /\ UNCHANGED <<calc, wallet>>
    /\ LET g == r.gameId
       IN  /\ balance' = [balance EXCEPT ![r.userId] = r.newBalance]
           /\ ledger' = Append(ledger, WinLedgerRow(r))
           /\ games' = [games EXCEPT ![g] = CashedOutRow(games[g], r.winningsFixed)]
           /\ Return(r, "cashout", games'[g])

-----------------------------------------------------------------------------
(* Failures of the database *)

\* The statements a handler in flight has still to run.
StatementsLeft(r) ==
    CASE r.pc = "bet_tx" -> {"update_user", "insert_tx", "insert_game", "commit"}
      [] r.pc = "co_select_user" -> {"select_user"}
      [] r.pc = "co_tx" -> {"update_user", "insert_tx", "update_game", "commit"}
      [] r.pc = "rv_update" -> {"update_game"}
      [] OTHER -> {}

OpOf(r) ==
    CASE r.pc = "bet_tx" -> "bet"
      [] r.pc \in {"co_select_user", "co_tx"} -> "cashout"
      [] OTHER -> "reveal"

\* AfterFailure as it would be if the statements ran on db instead of tx:
\* what the handler wrote before the failing statement stays written.
AfterFailureNoRollback(r, failed) ==
    LET wroteBalance == r.pc \in {"bet_tx", "co_tx"} /\ failed # "update_user"
        wroteLedger == wroteBalance /\ failed # "insert_tx"
    IN  [balance |-> IF wroteBalance
                       THEN [balance EXCEPT ![r.userId] = r.newBalance]
                       ELSE balance,
         ledger |-> IF wroteLedger
                      THEN Append(ledger, IF r.pc = "bet_tx" THEN BetLedgerRow(r)
                                                             ELSE WinLedgerRow(r))
                      ELSE ledger,
         games |-> games]

\* What the tables hold after the statement `failed` of handler r has
\* thrown: inside db.transaction the callback rejects and drizzle rolls
\* back, so whatever the transaction wrote before is gone; the lone UPDATE
\* of revealMinesTile has simply not happened.
AfterFailure(r, failed) ==
    [balance |-> balance, ledger |-> ledger, games |-> games]

StatementFails(r) ==
    \E failed \in StatementsLeft(r) :
        /\ balance' = AfterFailure(r, failed).balance
        /\ ledger' = AfterFailure(r, failed).ledger
        /\ games' = AfterFailure(r, failed).games
        /\ UNCHANGED <<calc, wallet>>
        /\ Throw(r, OpOf(r), "database error")

-----------------------------------------------------------------------------

Next ==
    \/ \E userId \in UserIds, betAmount \in BetAmounts,
          mineCount \in MineCountInputs, clientSeed \in ClientSeeds :
            createMinesGame(userId, betAmount, mineCount, clientSeed)
    \/ \E userId \in Users, gameId \in GameIdInputs, tileIndex \in TileInputs :
            revealMinesTile(userId, gameId, tileIndex)
    \/ \E userId \in Users, gameId \in GameIdInputs :
            cashoutMinesGame(userId, gameId)
    \/ \E r \in BagToSet(requests) :
        \/ BetCommit(r)
        \/ RevealUpdate(r)
        \/ CashoutSelectUser(r)
        \/ CashoutCommit(r)
        \/ StatementFails(r)

Spec == Init /\ [][Next]_vars

-----------------------------------------------------------------------------
(* calculateMinesMultiplier called on its own *)

InitCalc ==
    /\ balance = InitBalance
    /\ ledger = <<>>
    /\ games = <<>>
    /\ requests = EmptyBag
    /\ response = NoResponse
    /\ wallet = NoWallet
    /\ \E revealedCount \in RevealedCountInputs,
          mineCount \in CalcMineCountInputs :
            calc = [NoCalc EXCEPT !.revealedCount = revealedCount,
                                  !.mineCount = mineCount]

CalculateMultiplier ==
    /\ ~calc.done
    /\ calc' = [calc EXCEPT
                  !.done = TRUE,
                  !.multiplier = calculateMinesMultiplier(calc.revealedCount,
                                                          calc.mineCount)]
    /\ UNCHANGED <<balance, ledger, games, requests, response, wallet>>

NextCalc == CalculateMultiplier

SpecCalc == InitCalc /\ [][NextCalc]_vars

-----------------------------------------------------------------------------
(* combinations called on its own *)

InitComb ==
    /\ balance = InitBalance
    /\ ledger = <<>>
    /\ games = <<>>
    /\ requests = EmptyBag
    /\ response = NoResponse
    /\ wallet = NoWallet
    /\ \E n \in CombNInputs, k \in CombKInputs :
            calc = [n |-> n, k |-> k, done |-> FALSE, res |-> 0]

Combine ==
    /\ ~calc.done
    /\ calc' = [calc EXCEPT !.done = TRUE,
                            !.res = combinations(calc.n, calc.k)]
    /\ UNCHANGED <<balance, ledger, games, requests, response, wallet>>

NextComb == Combine

SpecComb == InitComb /\ [][NextComb]_vars

-----------------------------------------------------------------------------
(* generateMineLocations run on its own, on any digest *)

InitMines ==
    /\ balance = InitBalance
    /\ ledger = <<>>
    /\ games = <<>>
    /\ requests = EmptyBag
    /\ response = NoResponse
    /\ wallet = NoWallet
    /\ \E buffer \in BufferInputs, mine_count \in CalcMineCountInputs :
            calc = [buffer |-> buffer, mine_count |-> mine_count,
                    done |-> FALSE, mineLocations |-> <<>>]

GenerateMines ==
    /\ ~calc.done
    /\ calc' = [calc EXCEPT
                  !.done = TRUE,
                  !.mineLocations = MineLocationsOf(calc.buffer, GRID_SIZE,
                                                    calc.mine_count)]
    /\ UNCHANGED <<balance, ledger, games, requests, response, wallet>>

NextMines == GenerateMines

SpecMines == InitMines /\ [][NextMines]_vars

-----------------------------------------------------------------------------
(* The withdrawal balance: claimAllRewards and POST /api/user/withdraw *)

\* const today = new Date(); today.setHours(0, 0, 0, 0): midnight, in hours
\* since the midnight before.
today == 24

\* new Date(): the time of the requests, six in the morning.
NOW == 30

\* lastClaimedAt of the rows there are at the start: never, yesterday, and
\* earlier today.
LastClaimedAtInputs == {NULL, 10, 25}

EarningRows ==
    [referrerId : Users, amount : {250, 500}, status : {"unclaimed", "claimed"}]

InvestmentRows ==
    [userId : {"u1"}, dailyReturn : {300}, status : {"active", "completed"},
     lastClaimedAt : LastClaimedAtInputs]

\* The referral_earnings tables at the start.
EarningTables == {<<e1, e2>> : e1 \in EarningRows, e2 \in EarningRows}

\* The user_investments tables at the start.
InvestmentTables == {<<i>> : i \in InvestmentRows}

\* req.body.amount, in cents.
WithdrawAmounts == {0, 2500, 10000}

WalletFrame ==
    [pc |-> "none", userId |-> "u0", earningIds |-> {}, investmentIds |-> {},
     totalClaimed |-> 0, amount |-> 0, newBalance |-> 0]

\* The withdrawal requests the handlers in flight are about to insert.
WithdrawalsInFlight ==
    BagCardinality([r \in {q \in BagToSet(requests) :
                              q.pc \in {"wd_update", "wd_insert"}} |->
                        requests[r]])

\* rows.reduce((sum, row) => sum + parseFloat(row[field]), 0) over the rows
\* of `table` with an id in `ids`; the amounts are whole cents, and few, so
\* that the sum of the doubles is the sum of the cents.
RECURSIVE reduce(_, _, _)
reduce(table, ids, field) ==
    IF ids = {} THEN 0
    ELSE LET id == CHOOSE i \in ids : TRUE
         IN  table[id][field] + reduce(table, ids \ {id}, field)

\* select().from(referralEarnings).where(and(eq(referrerId, userId),
\*                                           eq(status, "unclaimed")))
getUnclaimedReferralEarnings(userId) ==
    {id \in 1..Len(wallet.referralEarnings) :
        /\ wallet.referralEarnings[id].referrerId = userId
        /\ wallet.referralEarnings[id].status = "unclaimed"}

\* select().from(userInvestments).where(and(eq(userId, userId),
\*     eq(status, "active"), lt(lastClaimedAt, today))); a null lastClaimedAt
\* is not less than anything.
getUnclaimedPlanReturns(userId) ==
    {id \in 1..Len(wallet.userInvestments) :
        /\ wallet.userInvestments[id].userId = userId
        /\ wallet.userInvestments[id].status = "active"
        /\ wallet.userInvestments[id].lastClaimedAt # NULL
        /\ wallet.userInvestments[id].lastClaimedAt < today}

\* The call, and the select of the unclaimed referral earnings.
claimAllRewards(userId) ==
    /\ InFlight < MaxInFlight
    /\ UNCHANGED <<db, calc, wallet>>
    /\ Await(WalletFrame,
             [WalletFrame EXCEPT
                !.pc = "cl_select_returns", !.userId = userId,
                !.earningIds = getUnclaimedReferralEarnings(userId)])

\* The select of the unclaimed plan returns, the early return when there is
\* nothing to claim, and the totals.
ClaimSelectPlanReturns(r) ==
    /\ r.pc = "cl_select_returns"
    /\ UNCHANGED <<db, calc, wallet>>
    /\ LET investmentIds == getUnclaimedPlanReturns(r.userId)
           totalReferralEarnings ==
               reduce(wallet.referralEarnings, r.earningIds, "amount")
           totalPlanReturns ==
               reduce(wallet.userInvestments, investmentIds, "dailyReturn")
       IN  IF r.earningIds = {} /\ investmentIds = {}
             THEN Return(r, "claim", [totalClaimed |-> 0])
             ELSE Await(r, [r EXCEPT
                              !.pc = "cl_select_user",
                              !.investmentIds = investmentIds,
                              !.totalClaimed = totalReferralEarnings
                                                 + totalPlanReturns])

\* BEGIN, and this.getUser(userId): the committed user row;
\* newBalance = (currentBalance + totalClaimed).toFixed(2)
ClaimSelectUser(r) ==
    /\ r.pc = "cl_select_user"
    /\ UNCHANGED <<db, calc, wallet>>
    /\ Await(r, [r EXCEPT
                   !.pc = "cl_tx",
                   !.newBalance = wallet.withdrawalBalance[r.userId]
                                    + r.totalClaimed])

\* tx.update(referralEarnings).set({ status: "claimed" })
\*   .where(inArray(referralEarnings.id, referralEarningIds))
ClaimedRows(table, ids) ==
    [id \in 1..Len(table) |->
        IF id \in ids THEN [table[id] EXCEPT !.status = "claimed"]
                      ELSE table[id]]

\* tx.update(userInvestments).set({ lastClaimedAt: new Date() })
\*   .where(inArray(userInvestments.id, investmentIds))
AdvancedRows(table, ids) ==
    [id \in 1..Len(table) |->
        IF id \in ids THEN [table[id] EXCEPT !.lastClaimedAt = NOW]
                      ELSE table[id]]

\* The rest of the transaction: the UPDATE of the user row, the UPDATE of
\* the earnings read at the start, the UPDATE of the investments read at the
\* start, COMMIT, and the return. One step: the writes of a transaction
\* become visible together, and the row lock of the first UPDATE makes a
\* second transaction's UPDATE of the same user wait for this COMMIT.
ClaimCommit(r) ==
    /\ r.pc = "cl_tx"
    /\ UNCHANGED <<db, calc>>
    /\ wallet' = [wallet EXCEPT
                    !.withdrawalBalance[r.userId] = r.newBalance,
                    !.referralEarnings = ClaimedRows(@, r.earningIds),
                    !.userInvestments = AdvancedRows(@, r.investmentIds)]
    /\ Return(r, "claim", [totalClaimed |-> r.totalClaimed])

\* storage.getUser(userId), the balance check, and newBalance.
withdraw(userId, amount) ==
    /\ InFlight < MaxInFlight
    /\ Len(wallet.withdrawalRequests) + WithdrawalsInFlight
         < MaxWithdrawalRequests
    /\ UNCHANGED <<db, calc, wallet>>
    /\ IF userId \notin Users \/ wallet.withdrawalBalance[userId] < amount
         THEN Throw(WalletFrame, "withdraw",
                    "Insufficient withdrawal balance.")
         ELSE Await(WalletFrame,
                    [WalletFrame EXCEPT
                       !.pc = "wd_update", !.userId = userId,
                       !.amount = amount,
                       !.newBalance = wallet.withdrawalBalance[userId]
                                        - amount])

\* db.update(users).set({ withdrawalBalance }).where(eq(users.id, userId))
updateUserBalances(userId, withdrawalBalance) ==
    [wallet EXCEPT !.withdrawalBalance[userId] = withdrawalBalance]

\* await storage.updateUserBalances(userId, undefined, newBalance), a
\* statement of its own, committed when it returns.
WithdrawUpdate(r) ==
    /\ r.pc = "wd_update"
    /\ UNCHANGED <<db, calc>>
    /\ wallet' = updateUserBalances(r.userId, r.newBalance)
    /\ Await(r, [r EXCEPT !.pc = "wd_insert"])

\* db.insert(withdrawalRequests).values(request).returning()
createWithdrawalRequest(request) ==
    [wallet EXCEPT !.withdrawalRequests = Append(@, request)]

\* await storage.createWithdrawalRequest({ ...withdrawalData, userId,
\* status: 'pending' }) and res.json(request)
WithdrawInsert(r) ==
    /\ r.pc = "wd_insert"
    /\ UNCHANGED <<db, calc>>
    /\ LET request == [userId |-> r.userId, amount |-> r.amount,
                       status |-> "pending"]
       IN  /\ wallet' = createWithdrawalRequest(request)
           /\ Return(r, "withdraw", request)

WalletOpOf(r) ==
    IF r.pc \in {"wd_update", "wd_insert"} THEN "withdraw" ELSE "claim"

\* The statement a handler in flight runs next throws: the route answers
\* 500. A transaction of claimAllRewards is rolled back; what the withdraw
\* route has written with a statement of its own stays written.
WalletStatementFails(r) ==
    /\ r.pc # "none"
    /\ UNCHANGED <<db, calc, wallet>>
    /\ Throw(r, WalletOpOf(r), "database error")

InitRewards ==
    /\ balance = InitBalance
    /\ ledger = <<>>
    /\ games = <<>>
    /\ requests = EmptyBag
    /\ response = NoResponse
    /\ calc = NoCalc
    /\ \E earnings \in EarningTables, investments \in InvestmentTables :
            wallet = [NoWallet EXCEPT !.referralEarnings = earnings,
                                      !.userInvestments = investments]

NextRewards ==
    \/ \E userId \in Users : claimAllRewards(userId)
    \/ \E r \in BagToSet(requests) :
        \/ ClaimSelectPlanReturns(r)
        \/ ClaimSelectUser(r)
        \/ ClaimCommit(r)
        \/ WalletStatementFails(r)

SpecRewards == InitRewards /\ [][NextRewards]_vars

NextWithdraw ==
    \/ \E userId \in UserIds, amount \in WithdrawAmounts :
            withdraw(userId, amount)
    \/ \E r \in BagToSet(requests) :
        \/ WithdrawUpdate(r)
        \/ WithdrawInsert(r)
        \/ WalletStatementFails(r)

SpecWithdraw == Init /\ [][NextWithdraw]_vars

-----------------------------------------------------------------------------
(* Properties *)

GameIds == 1..Len(games)
Terminal(status) == status \in {"busted", "cashed_out"}

\* The handler whose frame r was in flight has finished in this step.
Finished(r) == requests' = requests (-) SetToBag({r})
Succeeded(r) == Finished(r) /\ response'.error = "none"

\* What the first step of a handler of `op` looks like, whatever its
\* arguments: it takes no frame out of flight, and it either throws to the
\* caller of `op` or puts one more frame in flight.
CallStep(op) ==
    /\ BagCardinality(requests') >= InFlight
    /\ response'.op \in {op, "none"}
    /\ response'.op = "none" => BagCardinality(requests') > InFlight

RECURSIVE SumBets(_, _)
SumBets(userId, n) ==
    IF n = 0 THEN 0
    ELSE SumBets(userId, n - 1)
           + (IF games[n].userId = userId THEN games[n].betAmount ELSE 0)

NoWinInLedger == \A i \in 1..Len(ledger) : ledger[i].type # "game_win"

\* C1: a game's status leaves "active" at most once: a game that is busted
\* or cashed_out keeps its status, its revealedTiles and its
\* payoutMultiplier in every later step, whatever requests interleave.
C1_TerminalIsFinal ==
    [][\A g \in GameIds :
          Terminal(games[g].status) =>
            /\ games'[g].status = games[g].status
            /\ games'[g].revealedTiles = games[g].revealedTiles
            /\ games'[g].payoutMultiplier = games[g].payoutMultiplier]_vars

\* C2: bets are atomic: as long as no winnings have been credited, the bets
\* of a user's games add up to no more than the balance the user started
\* with, and the balance is the start balance less those bets (of two
\* concurrent bets that the balance covers only one of, one is refused).
C2_BetAtomicity ==
    NoWinInLedger =>
        \A u \in Users :
            /\ SumBets(u, Len(games)) <= InitBalance[u]
            /\ balance[u] = InitBalance[u] - SumBets(u, Len(games))

\* C3: revealTile and cashout on one game run one at a time: a handler that
\* succeeds in updating a game row read the row as it still is when it
\* updates it (none has written the row in between).
C3_PerGameSerial ==
    [][\A r \in BagToSet(requests) :
          (r.pc \in {"rv_update", "co_tx"} /\ Succeeded(r)) =>
              r.game = games[r.gameId]]_vars

\* C4: a revealTile or cashout call made by the owner on a game that is
\* busted or cashed_out throws "Game is not active." in its first step and
\* is over: no frame stays in flight for it and the game rows, the
\* balances and the ledger are unchanged.
C4_TerminalRejects ==
    [][\A g \in GameIds :
          Terminal(games[g].status) =>
            /\ \A t \in TileInputs :
                  revealMinesTile(games[g].userId, g, t) =>
                    /\ response' = [op |-> "reveal", error |-> "Game is not active.",
                                    body |-> NoRow]
                    /\ requests' = requests
                    /\ UNCHANGED db
            /\ cashoutMinesGame(games[g].userId, g) =>
                    /\ response' = [op |-> "cashout", error |-> "Game is not active.",
                                    body |-> NoRow]
                    /\ requests' = requests
                    /\ UNCHANGED db]_vars

\* C4 witness: a game is cashed_out and a reveal on it has just been
\* refused as not active.
C4_Witness ==
    /\ response.op = "reveal"
    /\ response.error = "Game is not active."
    /\ \E g \in GameIds : games[g].status = "cashed_out"

HasSecrets(body) ==
    "serverSeed" \in DOMAIN body \/ "mineLocations" \in DOMAIN body

\* C5: what placeBet returns, and what revealTile returns with status
\* active, holds neither serverSeed nor mineLocations; any value returned
\* that holds one of them is a game whose status is busted or cashed_out,
\* and that game is terminal in the table as well.
C5_SecretsOnlyWhenTerminal ==
    (response.op # "none" /\ response.error = "none") =>
        /\ response.op = "bet" => ~HasSecrets(response.body)
        /\ (response.op = "reveal" /\ response.body.status = "active")
              => ~HasSecrets(response.body)
        /\ HasSecrets(response.body) =>
              /\ Terminal(response.body.status)
              /\ Terminal(games[response.body.id].status)

\* C5 witness: a reveal of a safe tile has returned an active game.
C5_Witness ==
    /\ response.op = "reveal"
    /\ response.error = "none"
    /\ response.body.status = "active"
    /\ Len(response.body.revealedTiles) > 0

\* C6: placeBet and cashout are all or nothing.  A step in which a handler
\* throws leaves the balances, the ledger and the games as they were; a bet
\* that succeeds sets the balance, appends its game_bet row and inserts its
\* game in one step; a cashout that succeeds sets the balance, appends its
\* game_win row and marks the game cashed_out in one step; and no balance,
\* ledger row, new game or cashedOutAmount is written by any other step.
C6_AllOrNothing ==
    [][/\ response'.error # "none" => UNCHANGED db
       /\ \A r \in BagToSet(requests) :
            /\ (r.pc = "bet_tx" /\ Succeeded(r)) =>
                  /\ balance' = [balance EXCEPT ![r.userId] = r.newBalance]
                  /\ ledger' = Append(ledger, [userId |-> r.userId,
                                               type |-> "game_bet",
                                               amount |-> 0 - r.betAmount])
                  /\ Len(games') = Len(games) + 1
                  /\ games'[Len(games')].userId = r.userId
                  /\ games'[Len(games')].betAmount = r.betAmount
                  /\ games'[Len(games')].status = "active"
                  /\ \A g \in GameIds : games'[g] = games[g]
            /\ (r.pc = "co_tx" /\ Succeeded(r)) =>
                  /\ balance' = [balance EXCEPT ![r.userId] = r.newBalance]
                  /\ ledger' = Append(ledger, [userId |-> r.userId,
                                               type |-> "game_win",
                                               amount |-> r.winningsFixed])
                  /\ games' = [games EXCEPT
                                 ![r.gameId].status = "cashed_out",
                                 ![r.gameId].cashedOutAmount = r.winningsFixed]
       /\ (\/ balance' # balance
           \/ ledger' # ledger
           \/ Len(games') # Len(games)
           \/ \E g \in GameIds :
                 games'[g].cashedOutAmount # games[g].cashedOutAmount)
            => \E r \in BagToSet(requests) :
                  r.pc \in {"bet_tx", "co_tx"} /\ Succeeded(r)]_vars

\* C6 witness: a statement of a cashout transaction has failed, after a bet
\* went through.
C6_Witness ==
    /\ response.op = "cashout"
    /\ response.error = "database error"
    /\ Len(ledger) > 0

NoDuplicates(arr) ==
    \A i, j \in 1..Len(arr) : i # j => arr[i] # arr[j]

\* C7: in an active game revealedTiles holds no tile twice, holds only
\* tiles of the grid 0..24, holds no mine, and so is no longer than the
\* number of safe tiles, 25 - mineCount.
C7_RevealedTilesValid ==
    \A g \in GameIds :
        games[g].status = "active" =>
            /\ NoDuplicates(games[g].revealedTiles)
            /\ \A i \in 1..Len(games[g].revealedTiles) :
                  /\ games[g].revealedTiles[i] \in 0..(GRID_SIZE - 1)
                  /\ ~includes(games[g].mineLocations, games[g].revealedTiles[i])
            /\ Len(games[g].revealedTiles) <= GRID_SIZE - games[g].mineCount

\* C8: a revealTile call with a tileIndex outside 0..24 throws in its first
\* step and is over: no frame stays in flight for it and nothing is written.
C8_BadTileRejected ==
    [][\A userId \in Users, gameId \in GameIdInputs, tileIndex \in TileInputs :
          (tileIndex \notin 0..(GRID_SIZE - 1)
             /\ revealMinesTile(userId, gameId, tileIndex)) =>
                /\ response'.error # "none"
                /\ requests' = requests
                /\ UNCHANGED db]_vars

\* The binomial coefficient, by Pascal's rule.
RECURSIVE Binomial(_, _)
Binomial(n, k) ==
    IF k < 0 \/ k > n THEN 0
    ELSE IF k = 0 \/ k = n THEN 1
    ELSE Binomial(n - 1, k - 1) + Binomial(n - 1, k)

\* p is num/den rounded to the nearest integer, the larger one on a tie.
IsNearest(p, num, den) ==
    /\ den > 0
    /\ 2 * p * den <= 2 * num + den
    /\ 2 * num + den < 2 * (p + 1) * den

\* The multiplier of game row `game` is 0.99 C(25,k) / C(25 - mineCount, k)
\* to 4 decimals, k the number of its revealed tiles.
MultiplierMatchesCount(game) ==
    IsNearest(game.payoutMultiplier,
              9900 * Binomial(25, Len(game.revealedTiles)),
              Binomial(25 - game.mineCount, Len(game.revealedTiles)))

\* C9 as stated: every game's payoutMultiplier is the multiplier of the
\* number of its revealed tiles, 0.99 for a game with none.
C9_MultiplierMatchesCount ==
    \A g \in GameIds : MultiplierMatchesCount(games[g])

\* C9 amended: every game with at least one revealed tile has the
\* multiplier of the number of its revealed tiles; a game with no revealed
\* tile has the default of the column, 1.0000.
C9_MultiplierMatchesCountOnceRevealed ==
    \A g \in GameIds :
        IF Len(games[g].revealedTiles) = 0
          THEN games[g].payoutMultiplier = 10000
          ELSE MultiplierMatchesCount(games[g])

\* C9 witness: one safe reveal with 5 mines gives 1.2375; a second one has
\* been written on some game as well.
C9_Witness ==
    /\ \E g \in GameIds :
          /\ games[g].mineCount = 5
          /\ Len(games[g].revealedTiles) = 1
          /\ games[g].payoutMultiplier = 12375
    /\ \E g \in GameIds : Len(games[g].revealedTiles) = 2

\* C10: a cashout that succeeds, called on a game it found active with at
\* least one revealed tile, credits the owner with betAmount * payoutMultiplier to the
\* cent, appends one game_win row of that amount, and marks the game
\* cashed_out with that cashedOutAmount, leaving the rest of the row alone.
C10_CashoutCredits ==
    [][\A r \in BagToSet(requests) :
          (/\ r.pc = "co_tx"
           /\ Succeeded(r)
           /\ r.game.status = "active"
           /\ Len(r.game.revealedTiles) >= 1) =>
              LET game == games[r.gameId]
                  won == (game.betAmount * game.payoutMultiplier + 5000) \div 10000
              IN  /\ balance' = [balance EXCEPT
                                   ![game.userId] = balance[game.userId] + won]
                  /\ ledger' = Append(ledger, [userId |-> game.userId,
                                               type |-> "game_win",
                                               amount |-> won])
                  /\ games' = [games EXCEPT
                                 ![r.gameId] = [game EXCEPT
                                                  !.status = "cashed_out",
                                                  !.cashedOutAmount = won]]]_vars

\* C11: a step of revealTile changes no balance and appends nothing to the
\* ledger; a reveal that hits a mine makes the game busted and leaves its
\* revealedTiles, payoutMultiplier and cashedOutAmount alone; and no busted
\* game has winnings credited for it (a cashedOutAmount paid out).
C11_RevealNeverCredits ==
    [][/\ (\/ response'.op = "reveal"
           \/ \E userId \in Users, gameId \in GameIdInputs,
                 tileIndex \in TileInputs :
                    revealMinesTile(userId, gameId, tileIndex)) =>
              (balance' = balance /\ ledger' = ledger)
       /\ \A r \in BagToSet(requests) :
            (/\ r.pc = "rv_update"
             /\ Succeeded(r)
             /\ includes(games[r.gameId].mineLocations, r.tileIndex)) =>
                /\ games'[r.gameId].status = "busted"
                /\ games'[r.gameId].revealedTiles = games[r.gameId].revealedTiles
                /\ games'[r.gameId].payoutMultiplier
                     = games[r.gameId].payoutMultiplier
                /\ games'[r.gameId].cashedOutAmount
                     = games[r.gameId].cashedOutAmount
       /\ \A g \in 1..Len(games') :
            games'[g].status = "busted" => games'[g].cashedOutAmount = NULL]_vars

\* C12: a placeBet with a valid payload by a user whose balance is smaller
\* than betAmount throws "Insufficient balance." in its first step: no frame
\* stays in flight, and balances, ledger and games are unchanged.
C12_InsufficientBalanceRejected ==
    [][\A userId \in Users, betAmount \in BetAmounts,
          mineCount \in MineCountInputs, clientSeed \in ClientSeeds :
          (/\ betAmount > 0
           /\ mineCount \in 1..24
           /\ balance[userId] < betAmount
           /\ createMinesGame(userId, betAmount, mineCount, clientSeed)) =>
              /\ response' = [op |-> "bet", error |-> "Insufficient balance.",
                              body |-> NoRow]
              /\ requests' = requests
              /\ UNCHANGED db]_vars

\* C12 witness: a bet was refused for lack of balance after the user's
\* earlier bet had been debited.
C12_Witness ==
    /\ response.op = "bet"
    /\ response.error = "Insufficient balance."
    /\ \E g \in GameIds : balance[games[g].userId] < InitBalance[games[g].userId]

C14_BetDebitsOnce ==
    [][\A r \in BagToSet(requests) :
          (r.pc = "bet_tx" /\ Succeeded(r) /\ r.newBalance >= 0) =>
              /\ balance' = [balance EXCEPT
                               ![r.userId] = balance[r.userId] - r.betAmount]
              /\ ledger' = Append(ledger, [userId |-> r.userId,
                                           type |-> "game_bet",
                                           amount |-> 0 - r.betAmount])
              /\ Len(games') = Len(games) + 1
              /\ \A g \in GameIds : games'[g] = games[g]
              /\ LET game == games'[Len(games')]
                 IN  /\ game.userId = r.userId
                     /\ game.status = "active"
                     /\ game.revealedTiles = <<>>
                     /\ game.mineCount = r.mineCount
                     /\ game.clientSeed = r.clientSeed
                     /\ game.cashedOutAmount = NULL]_vars

\* C15: a game's cashedOutAmount is set exactly when its status is
\* cashed_out.
C15_CashedOutAmountIffCashedOut ==
    \A g \in GameIds :
        (games[g].cashedOutAmount # NULL) <=> (games[g].status = "cashed_out")

\* C16: a cashout by the owner of an active game with no revealed tile
\* throws "Cannot cash out before revealing any tiles." in its first step:
\* no frame stays in flight, and balances, ledger and games are unchanged.
C16_NothingToCashOut ==
    [][\A g \in GameIds :
          (/\ games[g].status = "active"
           /\ games[g].revealedTiles = <<>>
           /\ cashoutMinesGame(games[g].userId, g)) =>
              /\ response' = [op |-> "cashout",
                              error |-> "Cannot cash out before revealing any tiles.",
                              body |-> NoRow]
              /\ requests' = requests
              /\ UNCHANGED db]_vars

\* C16 witness: the cashout was refused on a game that is active with no
\* revealed tile.
C16_Witness ==
    /\ response.op = "cashout"
    /\ response.error = "Cannot cash out before revealing any tiles."
    /\ \E g \in GameIds :
          games[g].status = "active" /\ games[g].revealedTiles = <<>>

\* C17: a reveal by the owner of an active game of a tile that is already
\* in revealedTiles throws "Tile already revealed." in its first step: no
\* frame stays in flight and the game, like every other row, is unchanged.
C17_AlreadyRevealed ==
    [][\A g \in GameIds :
          \A i \in 1..Len(games[g].revealedTiles) :
             (/\ games[g].status = "active"
              /\ revealMinesTile(games[g].userId, g,
                                 games[g].revealedTiles[i])) =>
                 /\ response' = [op |-> "reveal",
                                 error |-> "Tile already revealed.",
                                 body |-> NoRow]
                 /\ requests' = requests
                 /\ UNCHANGED db]_vars

\* C17 witness: a second reveal of a revealed tile was refused on an active
\* game.
C17_Witness ==
    /\ response.op = "reveal"
    /\ response.error = "Tile already revealed."
    /\ \E g \in GameIds :
          games[g].status = "active" /\ games[g].revealedTiles = <<8>>

Stranger(userId, gameId) ==
    gameId \notin GameIds \/ games[gameId].userId # userId

\* C18: a reveal or a cashout naming a game that does not exist, or called
\* by a user who does not own the game, throws "Game not found or access
\* denied." in its first step and changes nothing; every handler in flight
\* on a game belongs to the game's owner; a game row changes only in a step
\* that ends a handler of its owner; and a cashout that commits changes the
\* balance of the owner alone and writes its ledger row for the owner.
C18_OwnerOnly ==
    [][/\ (/\ CallStep("reveal")
           /\ \E userId \in Users, gameId \in GameIdInputs,
                 tileIndex \in TileInputs :
                 /\ Stranger(userId, gameId)
                 /\ revealMinesTile(userId, gameId, tileIndex)) =>
              /\ response' = [op |-> "reveal",
                              error |-> "Game not found or access denied.",
                              body |-> NoRow]
              /\ requests' = requests
              /\ UNCHANGED db
       /\ (/\ CallStep("cashout")
           /\ \E userId \in Users, gameId \in GameIdInputs :
                 /\ Stranger(userId, gameId)
                 /\ cashoutMinesGame(userId, gameId)) =>
              /\ response' = [op |-> "cashout",
                              error |-> "Game not found or access denied.",
                              body |-> NoRow]
              /\ requests' = requests
              /\ UNCHANGED db
       /\ \A r \in BagToSet(requests') :
             r.gameId # 0 =>
                r.gameId \in 1..Len(games') /\ games'[r.gameId].userId = r.userId
       /\ \A g \in GameIds :
             games'[g] # games[g] =>
                \E r \in BagToSet(requests) :
                   /\ Finished(r)
                   /\ r.gameId = g
                   /\ r.userId = games[g].userId
       /\ \A r \in BagToSet(requests) :
             (r.pc = "co_tx" /\ Succeeded(r)) =>
                /\ \A u \in Users :
                      u # games[r.gameId].userId => balance'[u] = balance[u]
                /\ ledger'[Len(ledger')].userId = games[r.gameId].userId]_vars

\* C18 witness: a cashout was refused as not found or denied while a game
\* with a revealed tile exists.
C18_Witness ==
    /\ response.error = "Game not found or access denied."
    /\ response.op = "cashout"
    /\ \E g \in GameIds : Len(games[g].revealedTiles) > 0

\* a * b for 0 <= a < 2^31 and 0 <= b < 10^7, as three digits of base 10000,
\* the most significant first.
WideProduct(a, b) ==
    LET a1 == a \div 10000
        a0 == a % 10000
        b1 == b \div 10000
        b0 == b % 10000
        low == a0 * b0
        mid == a1 * b0 + a0 * b1 + low \div 10000
    IN  <<a1 * b1 + mid \div 10000, mid % 10000, low % 10000>>

WideLess(x, y) ==
    \/ x[1] < y[1]
    \/ x[1] = y[1] /\ x[2] < y[2]
    \/ x[1] = y[1] /\ x[2] = y[2] /\ x[3] < y[3]

\* m < n for two finite multipliers: m.num / m.den < n.num / n.den
MultiplierLess(m, n) ==
    /\ m.den > 0
    /\ n.den > 0
    /\ WideLess(WideProduct(m.num, n.den), WideProduct(n.num, m.den))

\* C19: for every mineCount in 1..24 and every k with 0 <= k < 25 -
\* mineCount, calculateMinesMultiplier(k + 1, mineCount) is a finite number
\* greater than calculateMinesMultiplier(k, mineCount), that is
\* C(25,k) C(25 - mineCount, k+1) < C(25,k+1) C(25 - mineCount, k).
C19_MultiplierIncreases ==
    (calc.done /\ calc.revealedCount < GRID_SIZE - calc.mineCount) =>
        MultiplierLess(calc.multiplier,
                       calculateMinesMultiplier(calc.revealedCount + 1,
                                                calc.mineCount))

\* C19 witness: the multiplier of 12 revealed tiles with one mine, where
\* the binomial coefficients are the largest, has been calculated.
C19_Witness ==
    /\ calc.done
    /\ calc.mineCount = 1
    /\ calc.revealedCount = 12
    /\ calc.multiplier.num = 99 * 5200300

\* C20: for every mineCount in 1..24, calculateMinesMultiplier(0, mineCount)
\* is 0.99 (99 hundredths, below 1), and its divisor is not zero.
C20_BaselineIsHouseEdge ==
    (calc.done /\ calc.revealedCount = 0) =>
        /\ calc.multiplier.den # 0
        /\ calc.multiplier.num = 99 * calc.multiplier.den
        /\ calc.multiplier.num < 100 * calc.multiplier.den

\* C20 witness: the multiplier of no revealed tile with 24 mines has been
\* calculated.
C20_Witness ==
    /\ calc.done
    /\ calc.revealedCount = 0
    /\ calc.mineCount = 24

\* C21: on every digest and for every mineCount in 1..24,
\* generateMineLocations returns mineCount tiles of the grid 0..24 in
\* strictly ascending order (so pairwise distinct), and the swap index of
\* every step i of the shuffle lies in 0..i, on this digest and whatever
\* byte 0..255 the digest has there.
C21_MineLayoutValid ==
    calc.done =>
        /\ Len(calc.mineLocations) = calc.mine_count
        /\ \A p \in 1..Len(calc.mineLocations) :
              calc.mineLocations[p] \in 0..24
        /\ \A p \in 1..(Len(calc.mineLocations) - 1) :
              calc.mineLocations[p] < calc.mineLocations[p + 1]
        /\ \A i \in 1..24 :
              /\ SwapIndex(calc.buffer, i) \in 0..i
              /\ \A byte \in 0..255 :
                    SwapIndex([calc.buffer EXCEPT ![i % 64] = byte], i) \in 0..i

\* C21 witness: 24 mines have been laid out from the digest of 64 bytes
\* 255, the one with the largest swap indices.
C21_Witness ==
    /\ calc.done
    /\ calc.mine_count = 24
    /\ \A b \in 0..63 : calc.buffer[b] = 255
    /\ Len(calc.mineLocations) = 24

C23_SeedsWriteOnce ==
    /\ [][\A g \in GameIds :
            /\ games'[g].userId = games[g].userId
            /\ games'[g].betAmount = games[g].betAmount
            /\ games'[g].mineCount = games[g].mineCount
            /\ games'[g].mineLocations = games[g].mineLocations
            /\ games'[g].serverSeed = games[g].serverSeed
            /\ games'[g].serverSeedHash = games[g].serverSeedHash
            /\ games'[g].clientSeed = games[g].clientSeed
            /\ games'[g].nonce = games[g].nonce]_vars
    /\ [](\A g \in GameIds :
            /\ games[g].serverSeedHash = hashServerSeed(games[g].serverSeed)
            /\ games[g].mineLocations =
                  generateMineLocations(games[g].serverSeed,
                                        games[g].clientSeed, games[g].nonce,
                                        25, games[g].mineCount))

\* C23 witness: one game has been cashed out and another busted.
C23_Witness ==
    /\ \E g \in GameIds : games[g].status = "busted"
    /\ \E g \in GameIds :
          games[g].status = "cashed_out" /\ Len(games[g].revealedTiles) > 0

\* C24: every step leaves the revealedTiles of every game as it is or
\* appends one tile to its end, so that a revealed tile stays revealed.
C24_RevealedTilesOnlyGrow ==
    [][\A g \in GameIds :
          \/ games'[g].revealedTiles = games[g].revealedTiles
          \/ /\ Len(games'[g].revealedTiles) = Len(games[g].revealedTiles) + 1
             /\ SubSeq(games'[g].revealedTiles, 1, Len(games[g].revealedTiles))
                  = games[g].revealedTiles]_vars

\* The row of Pascal's triangle below `row`, from its entry p on: each
\* entry is the sum of the two above it.
RECURSIVE PascalBelowFrom(_, _)
PascalBelowFrom(row, p) ==
    IF p > Len(row) + 1 THEN <<>>
    ELSE <<(IF p > 1 THEN row[p - 1] ELSE 0)
             + (IF p <= Len(row) THEN row[p] ELSE 0)>>
           \o PascalBelowFrom(row, p + 1)

PascalBelow(row) == PascalBelowFrom(row, 1)

RECURSIVE PascalDown(_, _)
PascalDown(row, n) ==
    IF Len(row) > n THEN row ELSE PascalDown(PascalBelow(row), n)

\* Row n of Pascal's triangle: C(n,0), ..., C(n,n).
PascalRow(n) == PascalDown(<<1>>, n)

\* Every division of the loop from step i on leaves no remainder.
RECURSIVE DivisionsExact(_, _, _, _)
DivisionsExact(res, n, k, i) ==
    \/ i > k
    \/ /\ (res * (n - i + 1)) % i = 0
       /\ DivisionsExact((res * (n - i + 1)) \div i, n, k, i + 1)

\* C25: for n in 0..25, combinations(n, k) is 0 when k < 0 or k > n and the
\* binomial coefficient C(n,k) otherwise; every division in the loop is
\* exact, for k and for n - k; and the loop run to k without the symmetry
\* step gives the same number.
C25_CombinationsIsBinomial ==
    calc.done =>
        IF calc.k < 0 \/ calc.k > calc.n
          THEN calc.res = 0
          ELSE /\ calc.res = PascalRow(calc.n)[calc.k + 1]
               /\ DivisionsExact(1, calc.n, calc.k, 1)
               /\ DivisionsExact(1, calc.n, calc.n - calc.k, 1)
               /\ CombLoop(1, calc.n, calc.k, 1) = calc.res

\* C25 witness: C(25,13), computed through the symmetry step as C(25,12),
\* and C(25,26) = 0 is covered by the same run.
C25_Witness ==
    /\ calc.done
    /\ calc.n = 25
    /\ calc.k = 13
    /\ calc.res = 5200300

\* The game_win rows of the ledger written for user u.
WinRows(u) ==
    {i \in 1..Len(ledger) : ledger[i].userId = u /\ ledger[i].type = "game_win"}

\* The games of user u that have been cashed out.
CashedOutGames(u) ==
    {g \in GameIds : games[g].userId = u /\ games[g].cashedOutAmount # NULL}

RECURSIVE SumCashedOut(_, _)
SumCashedOut(u, n) ==
    IF n = 0 THEN 0
    ELSE SumCashedOut(u, n - 1)
           + (IF n \in CashedOutGames(u) THEN games[n].cashedOutAmount ELSE 0)

\* C26: there are no more game_win rows of a user than games the user has
\* cashed out (one at most for each), and the user's balance is the initial
\* balance minus the bets of the user's games plus the cashedOutAmounts of
\* the games the user has cashed out.
C26_MoneyConserved ==
    \A u \in Users :
        /\ Cardinality(WinRows(u)) <= Cardinality(CashedOutGames(u))
        /\ balance[u] = InitBalance[u] - SumBets(u, Len(games))
                          + SumCashedOut(u, Len(games))

\* C27: for every mineCount in 1..24 and every count k of revealed tiles in
\* 1..25 - mineCount, the multiplier is a finite number below 1,000,000
\* (in hundredths: below 100,000,000), the limit of the numeric(10,4)
\* column it is stored in.
C27_MultiplierFitsColumn ==
    (calc.done /\ calc.revealedCount \in 1..(GRID_SIZE - calc.mineCount)) =>
        /\ calc.multiplier.den > 0
        /\ calc.multiplier.num \div calc.multiplier.den
             < 100 * MULT_COLUMN_LIMIT

\* C28: no step leaves a balance negative, and every step that adds a game
\* adds one game and lowers its owner's balance by the game's betAmount.
C28_EveryGamePaidFor ==
    [][/\ \A u \in Users : balance'[u] >= 0
       /\ Len(games') # Len(games) =>
            /\ Len(games') = Len(games) + 1
            /\ LET game == games'[Len(games')]
               IN  balance'[game.userId]
                     = balance[game.userId] - game.betAmount]_vars

NewlyClaimed(u) ==
    {id \in 1..Len(wallet.referralEarnings) :
        /\ wallet.referralEarnings[id].referrerId = u
        /\ wallet.referralEarnings[id].status = "unclaimed"
        /\ wallet'.referralEarnings[id].status = "claimed"}

NewlyAdvanced(u) ==
    {id \in 1..Len(wallet.userInvestments) :
        /\ wallet.userInvestments[id].userId = u
        /\ wallet'.userInvestments[id].lastClaimedAt
             # wallet.userInvestments[id].lastClaimedAt}

\* C29: in every step, what is added to a user's withdrawal balance is the
\* sum of the amounts of the user's referral earnings that the step turns
\* from unclaimed to claimed, plus the daily returns of the user's
\* investments whose lastClaimedAt the step advances.
C29_CreditedOncePerEarning ==
    [][\A u \in Users :
          wallet'.withdrawalBalance[u] - wallet.withdrawalBalance[u]
            = reduce(wallet.referralEarnings, NewlyClaimed(u), "amount")
                + reduce(wallet.userInvestments, NewlyAdvanced(u),
                         "dailyReturn")]_vars

WithdrawalRequestsOf(u) ==
    {id \in 1..Len(wallet.withdrawalRequests) :
        wallet.withdrawalRequests[id].userId = u}

NoWithdrawInFlight(u) ==
    \A r \in BagToSet(requests) : r.userId # u

\* C30: no withdrawal balance is negative, and while no withdraw request of
\* a user is in flight, the amounts of the user's withdrawal requests add
\* up to what has been taken from the user's withdrawal balance.
C30_RequestsMatchDeductions ==
    \A u \in Users :
        /\ wallet.withdrawalBalance[u] >= 0
        /\ NoWithdrawInFlight(u) =>
             reduce(wallet.withdrawalRequests, WithdrawalRequestsOf(u), "amount")
               = InitWithdrawalBalance[u] - wallet.withdrawalBalance[u]

====
